---- MODULE Spec2Model ----
(***************************************************************************)
(* Model of go-elb-deploy: main (src/main.go) runs deploy.Deploy           *)
(* (src/unnamed/part_000), which loads deploy.json, resolves the commit    *)
(* hash of the configured branch, zips the configured files, uploads the   *)
(* archive to S3 and deploys it to Elastic Beanstalk.                      *)
(*                                                                         *)
(* Go strings are modelled as sequences of one-character strings, so that  *)
(* the path and string functions the code calls (filepath.Join, Base, Rel, *)
(* SplitList, path.Join, strings.TrimSpace) are computed, not assumed.     *)
(***************************************************************************)
EXTENDS Integers, Sequences, FiniteSets, TLC

\* ------------------------------------------------------------------ bounds

\* Longest "files" list of a deploy.json.
MaxFiles == 2
\* Longest content of the branch ref file.
MaxRefLen == 2
\* Number of times the tool is run in a row.
MaxRuns == 2

\* ----------------------------------------------------------------- strings

\* F applied to the value of x (of x and y): the argument is evaluated once,
\* before F, as Go evaluates the arguments of a call.
Apply1(F(_), x) == CHOOSE r \in {F(v) : v \in {x}} : TRUE

Apply2(F(_, _), x, y) == CHOOSE r \in {F(v, w) : v \in {x}, w \in {y}} : TRUE

Last(s) == s[Len(s)]

Front(s) == SubSeq(s, 1, Len(s) - 1)

\* Byte values of the characters that occur in file names (sort.Strings and
\* the lexical order of filepath.Walk compare bytes).
CharCode(c) ==
    CASE c = "\n" -> 10
      [] c = " " -> 32
      [] c = "-" -> 45
      [] c = "." -> 46
      [] c = "/" -> 47
      [] c = ":" -> 58
      [] c = "a" -> 97
      [] c = "b" -> 98
      [] c = "c" -> 99
      [] c = "d" -> 100
      [] c = "e" -> 101
      [] c = "f" -> 102
      [] c = "g" -> 103
      [] c = "m" -> 109
      [] c = "v" -> 118
      [] c = "w" -> 119
      [] OTHER -> 200

\* a < b for Go strings.
RECURSIVE StrLess(_, _)
StrLess(s, t) ==
    Apply2(LAMBDA a, b :
               IF b = <<>> THEN FALSE
               ELSE IF a = <<>> THEN TRUE
               ELSE IF a[1] = b[1] THEN StrLess(Tail(a), Tail(b))
               ELSE CharCode(a[1]) < CharCode(b[1]),
           s, t)

\* strings.Split(s, sep) for a one-character separator: the pieces between
\* the separators, empty pieces included.
RECURSIVE Split(_, _)
Split(s, sep) ==
    Apply1(LAMBDA t :
               IF \A i \in 1..Len(t) : t[i] # sep THEN <<t>>
               ELSE LET i == CHOOSE k \in 1..Len(t) :
                                 t[k] = sep /\ \A j \in 1..(k - 1) : t[j] # sep
                    IN  <<SubSeq(t, 1, i - 1)>>
                            \o Split(SubSeq(t, i + 1, Len(t)), sep),
           s)

\* strings.Join(elems, sep).
RECURSIVE JoinWith(_, _)
JoinWith(elems, sep) ==
    Apply1(LAMBDA e :
               IF e = <<>> THEN <<>>
               ELSE IF Len(e) = 1 THEN e[1]
               ELSE e[1] \o <<sep>> \o JoinWith(Tail(e), sep),
           elems)

IsSpace(c) == c \in {" ", "\n", "\t", "\r"}

RECURSIVE TrimLeft(_)
TrimLeft(s) ==
    Apply1(LAMBDA t : IF t # <<>> /\ IsSpace(t[1]) THEN TrimLeft(Tail(t)) ELSE t,
           s)

RECURSIVE TrimRight(_)
TrimRight(s) ==
    Apply1(LAMBDA t :
               IF t # <<>> /\ IsSpace(Last(t)) THEN TrimRight(Front(t)) ELSE t,
           s)

TrimRightOnly(s) == TrimRight(s)

\* strings.TrimSpace.
TrimSpace(s) == TrimLeft(TrimRight(s))

\* ------------------------------------------------------------------- paths

\* The component stack of path.Clean: "." and empty components are dropped,
\* ".." removes the component before it (at the root it is dropped, at the
\* start of a relative path it is kept).
RECURSIVE CleanComps(_, _, _)
CleanComps(comps, kept, rooted) ==
    Apply2(LAMBDA cs, st :
               IF cs = <<>> THEN st
               ELSE IF cs[1] = <<>> \/ cs[1] = <<".">>
                    THEN CleanComps(Tail(cs), st, rooted)
               ELSE IF cs[1] = <<".", ".">>
                    THEN IF st # <<>> /\ Last(st) # <<".", ".">>
                         THEN CleanComps(Tail(cs), Front(st), rooted)
                         ELSE IF rooted THEN CleanComps(Tail(cs), st, rooted)
                         ELSE CleanComps(Tail(cs), Append(st, cs[1]), rooted)
               ELSE CleanComps(Tail(cs), Append(st, cs[1]), rooted),
           comps, kept)

IsRooted(p) == p # <<>> /\ p[1] = "/"

\* path.Clean (filepath.Clean on a system whose separator is '/').
Clean(path) ==
    Apply1(LAMBDA p :
               IF p = <<>> THEN <<".">>
               ELSE Apply1(LAMBDA st :
                               IF IsRooted(p) THEN <<"/">> \o JoinWith(st, "/")
                               ELSE IF st = <<>> THEN <<".">>
                               ELSE JoinWith(st, "/"),
                           CleanComps(Split(p, "/"), <<>>, IsRooted(p))),
           path)

\* path.Join / filepath.Join: the elements from the first non-empty one on,
\* joined by '/', cleaned; "" when every element is empty.
RECURSIVE PathJoin(_)
PathJoin(elems) ==
    Apply1(LAMBDA e :
               IF e = <<>> THEN <<>>
               ELSE IF e[1] = <<>> THEN PathJoin(Tail(e))
               ELSE Clean(JoinWith(e, "/")),
           elems)

\* filepath.Base.
Base(path) ==
    Apply1(LAMBDA p :
               IF p = <<>> THEN <<".">>
               ELSE Apply1(LAMBDA comps :
                               LET named == {i \in 1..Len(comps) : comps[i] # <<>>}
                               IN  IF named = {} THEN <<"/">>
                                   ELSE comps[CHOOSE i \in named :
                                                  \A j \in named : j <= i],
                           Split(p, "/")),
           path)

\* The components of a cleaned path.
Comps(p) == SelectSeq(Split(p, "/"), LAMBDA c : c # <<>>)

RECURSIVE CommonPrefixLen(_, _)
CommonPrefixLen(s, t) ==
    Apply2(LAMBDA a, b :
               IF a = <<>> \/ b = <<>> \/ a[1] # b[1] THEN 0
               ELSE 1 + CommonPrefixLen(Tail(a), Tail(b)),
           s, t)

\* filepath.Rel of two rooted paths.
Rel(basepath, targpath) ==
    Apply2(LAMBDA bc, tc :
               Apply1(LAMBDA rest :
                          IF rest = <<>> THEN <<".">> ELSE JoinWith(rest, "/"),
                      [i \in 1..(Len(bc) - CommonPrefixLen(bc, tc)) |->
                           <<".", ".">>]
                          \o SubSeq(tc, CommonPrefixLen(bc, tc) + 1, Len(tc))),
           Comps(Clean(basepath)), Comps(Clean(targpath)))

\* filepath.SplitList on a system whose list separator is ':'.
SplitList(path) ==
    Apply1(LAMBDA p : IF p = <<>> THEN <<>> ELSE Split(p, ":"), path)

\* ------------------------------------------------------------- file system

\* The deployment directory (os.Getwd in main).
DeployDir == <<"/", "w">>

nC == <<"c", ":", "g">>
nD == <<"d">>
nE == <<"e">>
nF == <<"f">>

\* The paths below the deployment directory that may exist, each a sequence
\* of file names.
Nodes == { <<nF>>, <<nD>>, <<nD, nF>>, <<nD, nC>>, <<nD, nE>>, <<nD, nE, nF>> }

\* What os.Lstat and os.Open find at a path: nothing, a regular file, a
\* regular file that cannot be opened, or a directory.
Kinds == {"none", "file", "locked", "dir"}

\* The paths that may be directories: those with a path of Nodes below them.
DirNodes == {n \in Nodes : \E m \in Nodes : Len(m) = Len(n) + 1 /\ Front(m) = n}

\* A file system: something exists only inside an existing directory.
FileSystems ==
    {f \in [Nodes -> Kinds] :
        \A n \in Nodes :
            /\ (f[n] # "none" /\ Len(n) > 1) => f[Front(n)] = "dir"
            /\ f[n] = "dir" => n \in DirNodes}

\* The node a path names, or <<"..">> when it lies outside the deployment
\* directory.
NodeOf(p) ==
    Apply2(LAMBDA dc, c :
               IF Len(c) >= Len(dc) /\ SubSeq(c, 1, Len(dc)) = dc
               THEN SubSeq(c, Len(dc) + 1, Len(c))
               ELSE << <<".", ".">> >>,
           Comps(DeployDir), Comps(Clean(p)))

\* os.Lstat: the kind of the file at a path.
Lstat(f, p) ==
    Apply1(LAMBDA n :
               IF n = <<>> THEN "dir" ELSE IF n \in DOMAIN f THEN f[n] ELSE "none",
           NodeOf(p))

RECURSIVE SortNames(_)
SortNames(names) ==
    Apply1(LAMBDA S :
               IF S = {} THEN <<>>
               ELSE Apply1(LAMBDA m : <<m>> \o SortNames(S \ {m}),
                           CHOOSE a \in S : \A b \in S : a = b \/ StrLess(a, b)),
           names)

ReadDirNamesFilesOnly(f, p) ==
    Apply1(LAMBDA n :
               SortNames({Last(c) : c \in {c \in DOMAIN f :
                   f[c] \in {"file", "locked"} /\ Len(c) = Len(n) + 1
                   /\ Front(c) = n}}),
           NodeOf(p))

\* readDirNames of filepath.Walk: the names in a directory, sorted.
ReadDirNames(f, p) ==
    Apply1(LAMBDA n :
               SortNames({Last(c) : c \in {c \in DOMAIN f :
                   f[c] # "none" /\ Len(c) = Len(n) + 1 /\ Front(c) = n}}),
           NodeOf(p))

\* ----------------------------------------------------------------- archive

Nil == "nil"

ErrLstat == "lstat: no such file or directory"

ErrOpenFile == "open: permission denied"

\* The state of a zip.Writer and of the progress callback while zipFiles
\* runs: the error that stopped it, the entries created so far (name, the
\* file copied into it, the configured path it came from), and the paths the
\* callback was called with.
NewZip == [err |-> Nil, entries |-> <<>>, log |-> <<>>]

ProgressCallBase(has, log, archivePath) ==
    IF has THEN Append(log, Base(archivePath)) ELSE log

\* if progress != nil { progress(archivePath) }
ProgressCall(has, log, archivePath) ==
    IF has THEN Append(log, archivePath) ELSE log

\* os.Open, wr.Create and io.Copy of one file under an archive name.
CopyToZip(f, z, has, filePath, archivePath, arg) ==
    Apply2(LAMBDA name, log :
               IF Lstat(f, filePath) # "file"
               THEN [z EXCEPT !.err = ErrOpenFile, !.log = log]
               ELSE [z EXCEPT !.log = log,
                              !.entries = Append(@, [name |-> name,
                                                     src |-> filePath,
                                                     arg |-> arg])],
           archivePath, ProgressCall(has, z.log, archivePath))

\* The walk function returns early on a directory.
WalkSkips(kind) == kind = "dir"

\* The archive name writeDirToZip gives a file of the walked directory.
DirArchivePath(dirPath, filePath) ==
    PathJoin(<<Base(dirPath), PathJoin(SplitList(Rel(dirPath, filePath)))>>)

\* The function writeDirToZip passes to filepath.Walk.
WalkFn(f, z, has, dirPath, filePath, kind, arg) ==
    IF WalkSkips(kind) THEN z
    ELSE CopyToZip(f, z, has, filePath, DirArchivePath(dirPath, filePath), arg)

writeFileToZip(f, z, has, filePath, arg) ==
    CopyToZip(f, z, has, filePath, Base(filePath), arg)

\* -------------------------------------------------------------- descriptor

Bucket == "my-build-bucket"

ApplicationName == "MyApplicationName"

EnvironmentName == "MyEnvironmentName"

\* Branch names of a deploy.json.
Branches == { <<"m">>, <<"d", "v">> }

\* Paths of the "files" list of a deploy.json.
FileArgs == { <<"f">>, <<"d">>, <<"d", "/", "e">>, <<"d", "/", "f">> }

RECURSIVE SeqsUpTo(_, _)
SeqsUpTo(S, n) ==
    IF n = 0 THEN { <<>> }
    ELSE LET shorter == SeqsUpTo(S, n - 1)
         IN  shorter \cup {Append(q, x) : q \in shorter, x \in S}

\* What deploy.json can hold: nothing (no such file), text that is not JSON,
\* the JSON value null, or an object with files and branch.
DeployJsons(maxFiles) ==
    [is : {"missing", "malformed", "null"}, files : {<<>>}, branch : {<<>>}]
    \cup
    [is : {"object"}, files : SeqsUpTo(FileArgs, maxFiles), branch : Branches]

RefChars == {"a", "b", " ", "\n"}

\* What .git/refs/heads/<branch> can hold: nothing (no such file) or text.
RefFiles(maxLen) ==
    {[exists |-> FALSE, content |-> <<>>]} \cup
    [exists : {TRUE}, content : SeqsUpTo(RefChars, maxLen)]

\* The descriptor before newDeploymentDescriptor has built it.
NoDescriptor == [Files |-> <<>>, Branch |-> <<>>, Directory |-> <<>>,
                 CommitHash |-> <<>>, BuildVersion |-> <<>>, BuildKey |-> <<>>]

ErrOpenJson == "open deploy.json: no such file or directory"

ErrDecode == "invalid character looking for beginning of value"

ErrReadRef == "open .git/refs/heads: no such file or directory"

PanicNilDeref == "panic: invalid memory address or nil pointer dereference"

\* ------------------------------------------------------------------- state

VARIABLES
    deployJson,   \* the content of <dir>/deploy.json
    refFile,      \* the content of the ref file of the descriptor's branch
    fs,           \* the files below the deployment directory
    commits,      \* how often the ref file has been rewritten
    s3,           \* the objects of the bucket
    versions,     \* the registered application versions
    envVersion,   \* the version label the environment runs
    envAtStart,   \* envVersion when the current process started
    run,          \* the number of the current process
    pc,           \* where the current process is
    desc,         \* the descriptor of newDeploymentDescriptor
    progress,     \* whether zipFiles is called with a progress function
    zw,           \* zipFiles: the zip writer, and what the callback has seen
    fi,           \* zipFiles: the index of deployFile in descriptor.Files
    dirPath,      \* writeDirToZip: the directory being walked
    stack,        \* filepath.Walk: the paths still to visit, next first
    zip,          \* what the last call of zipFiles returned
    zipCb,        \* what zipFiles returned when called with a progress function
    steps,        \* the steps the current process has started, in order
    calls,        \* the remote calls the current process has made, in order
    failure,      \* the step that failed in the current process, its error
    deployRet,    \* what Deploy returned to main
    exitCode,     \* the exit status of the process
    stderr,       \* what the process wrote to standard error
    built,        \* per process that built a descriptor: its version and key
    puts          \* per PutObject call of any process: its target

vars == <<deployJson, refFile, fs, commits, s3, versions, envVersion,
          envAtStart, run, pc, desc, progress, zw, fi, dirPath, stack, zip,
          zipCb, steps, calls, failure, deployRet, exitCode, stderr, built,
          puts>>

zipVars == <<progress, zw, fi, dirPath, stack, zip, zipCb>>

envVars == <<deployJson, refFile, fs, commits>>

remoteVars == <<s3, versions, envVersion, envAtStart>>

NoFailure == [step |-> "none", err |-> Nil]

NoReturn == "not returned"

NoVersion == <<>>

NoZip == [err |-> "zipFiles not called", buf |-> <<>>, log |-> <<>>]

InitWith(jsons, refs, fss, start, prog) ==
    /\ deployJson \in jsons
    /\ refFile \in refs
    /\ fs \in fss
    /\ commits = 0
    /\ s3 = {}
    /\ versions = {}
    /\ envVersion = NoVersion
    /\ envAtStart = NoVersion
    /\ run = 1
    /\ pc = start
    /\ desc = IF start = "zipFiles"
              THEN [NoDescriptor EXCEPT !.Files = deployJson.files,
                                        !.Branch = deployJson.branch,
                                        !.Directory = DeployDir]
              ELSE NoDescriptor
    /\ progress = prog
    /\ zw = NewZip
    /\ fi = 1
    /\ dirPath = <<>>
    /\ stack = <<>>
    /\ zip = NoZip
    /\ zipCb = NoZip
    /\ steps = <<>>
    /\ calls = <<>>
    /\ failure = NoFailure
    /\ deployRet = NoReturn
    /\ exitCode = -1
    /\ stderr = <<>>
    /\ built = <<>>
    /\ puts = <<>>

\* ------------------------------------------------------------------ Deploy

\* fmt.Sprintf("%v-%v", descriptor.Branch, commitHash)
BuildVersionOf(branch, commitHash) == branch \o <<"-">> \o commitHash

BuildKeyPerRun(buildVersion) ==
    buildVersion \o <<IF run = 1 THEN "a" ELSE "b">> \o <<".", "z", "i", "p">>

\* descriptor.BuildKey = descriptor.BuildVersion + ".zip"
BuildKeyOf(buildVersion) == buildVersion \o <<".", "z", "i", "p">>

\* A step of Deploy fails with err: Deploy returns it.
Fails(step, err) ==
    /\ failure' = [step |-> step, err |-> err]
    /\ deployRet' = err
    /\ pc' = "deployReturned"

\* newDeploymentDescriptor up to the call of getCommitHash: deploy.json is
\* opened and decoded into the descriptor pointer, then Directory is set.
\* Decoding the JSON value null sets the pointer to nil without an error, and
\* the assignment to descriptor.Directory dereferences it.
LoadDescriptor ==
    /\ pc = "newDeploymentDescriptor"
    /\ steps' = Append(steps, "load")
    /\ CASE deployJson.is = "missing" ->
              Fails("load", ErrOpenJson) /\ UNCHANGED desc
         [] deployJson.is = "malformed" ->
              Fails("load", ErrDecode) /\ UNCHANGED desc
         [] deployJson.is = "null" ->
              /\ failure' = [step |-> "load", err |-> PanicNilDeref]
              /\ pc' = "panic"
              /\ UNCHANGED <<desc, deployRet>>
         [] OTHER ->
              /\ desc' = [Files |-> deployJson.files,
                          Branch |-> deployJson.branch,
                          Directory |-> DeployDir,
                          CommitHash |-> <<>>,
                          BuildVersion |-> <<>>,
                          BuildKey |-> <<>>]
              /\ pc' = "getCommitHash"
              /\ UNCHANGED <<failure, deployRet>>
    /\ UNCHANGED <<envVars, remoteVars, run, zipVars, calls, exitCode,
                   stderr, built, puts>>

\* getCommitHash and the rest of newDeploymentDescriptor.
GetCommitHash ==
    /\ pc = "getCommitHash"
    /\ steps' = Append(steps, "hash")
    /\ IF ~refFile.exists
       THEN Fails("hash", ErrReadRef) /\ UNCHANGED <<desc, built>>
       ELSE LET commitHash == TrimSpace(refFile.content)
                buildVersion == BuildVersionOf(desc.Branch, commitHash)
            IN  /\ desc' = [desc EXCEPT !.CommitHash = commitHash,
                                        !.BuildVersion = buildVersion,
                                        !.BuildKey = BuildKeyOf(buildVersion)]
                /\ built' = Append(built, [run |-> run,
                                           commits |-> commits,
                                           version |-> buildVersion,
                                           key |-> BuildKeyOf(buildVersion)])
                /\ pc' = "uploadToS3"
                /\ UNCHANGED <<failure, deployRet>>
    /\ UNCHANGED <<envVars, remoteVars, run, zipVars, calls, exitCode,
                   stderr, puts>>

\* zipFiles returns: (zipBuffer, nil) after zipWriter.Close, or (nil, err).
ZipReturns(z) ==
    /\ zip' = [err |-> z.err,
               buf |-> IF z.err = Nil THEN z.entries ELSE <<>>,
               log |-> z.log]
    /\ pc' = "zipReturned"

\* One round of the loop of zipFiles over descriptor.Files: Lstat, then
\* writeFileToZip, or the start of the walk of writeDirToZip; after the last
\* round, zipWriter.Close.
ZipLoop ==
    /\ pc = "zipFiles"
    /\ IF fi > Len(desc.Files)
       THEN ZipReturns(zw) /\ UNCHANGED <<zw, fi, dirPath, stack>>
       ELSE LET filePath == PathJoin(<<desc.Directory, desc.Files[fi]>>)
                kind == Lstat(fs, filePath)
                z1 == writeFileToZip(fs, zw, progress, filePath, desc.Files[fi])
            IN  CASE kind = "none" ->
                       /\ ZipReturns([zw EXCEPT !.err = ErrLstat])
                       /\ UNCHANGED <<zw, fi, dirPath, stack>>
                  [] kind = "dir" ->
                       /\ dirPath' = filePath
                       /\ stack' = <<filePath>>
                       /\ pc' = "walk"
                       /\ UNCHANGED <<zw, fi, zip>>
                  [] OTHER ->
                       /\ zw' = z1
                       /\ IF z1.err # Nil
                          THEN ZipReturns(z1) /\ UNCHANGED fi
                          ELSE fi' = fi + 1 /\ UNCHANGED <<pc, zip>>
                       /\ UNCHANGED <<dirPath, stack>>
    /\ UNCHANGED <<envVars, remoteVars, run, desc, progress, zipCb, steps,
                   calls, failure, deployRet, exitCode, stderr, built, puts>>

\* filepath.Walk visits the next path: the walk function is called on it and,
\* if it is a directory, what it holds is visited next, in lexical order. An
\* error of the walk function ends the walk and zipFiles; after the last path
\* writeDirToZip returns nil to the loop of zipFiles.
WalkStep ==
    /\ pc = "walk"
    /\ LET filePath == stack[1]
           kind == Lstat(fs, filePath)
           names == IF kind = "dir" THEN ReadDirNames(fs, filePath) ELSE <<>>
           z1 == WalkFn(fs, zw, progress, dirPath, filePath, kind,
                        desc.Files[fi])
           rest == [i \in 1..Len(names) |-> PathJoin(<<filePath, names[i]>>)]
                       \o Tail(stack)
       IN  /\ zw' = z1
           /\ stack' = rest
           /\ IF z1.err # Nil
              THEN ZipReturns(z1) /\ UNCHANGED fi
              ELSE IF rest = <<>>
                   THEN pc' = "zipFiles" /\ fi' = fi + 1 /\ UNCHANGED zip
                   ELSE UNCHANGED <<pc, fi, zip>>
    /\ UNCHANGED <<envVars, remoteVars, run, desc, progress, dirPath, zipCb,
                   steps, calls, failure, deployRet, exitCode, stderr, built,
                   puts>>

UploadNeverAborts(z) == FALSE

\* uploadToS3: if err != nil { return err } after zipFiles.
UploadAborts(z) == z.err # Nil

\* uploadToS3 calls zipFiles(nil).
CallZipFiles ==
    /\ pc = "uploadToS3"
    /\ steps' = Append(steps, "zip")
    /\ progress' = FALSE
    /\ zw' = NewZip
    /\ fi' = 1
    /\ pc' = "zipFiles"
    /\ UNCHANGED <<envVars, remoteVars, run, desc, dirPath, stack, zip, zipCb,
                   calls, failure, deployRet, exitCode, stderr, built, puts>>

\* uploadToS3 after zipFiles has returned.
UploadCheck ==
    /\ pc = "zipReturned"
    /\ IF UploadAborts(zip)
       THEN Fails("zip", zip.err)
       ELSE pc' = "PutObject" /\ UNCHANGED <<failure, deployRet>>
    /\ UNCHANGED <<envVars, remoteVars, run, desc, zipVars, steps, calls,
                   exitCode, stderr, built, puts>>

ErrPutObject == "PutObject: request failed"

ErrCreateVersion == "CreateApplicationVersion: request failed"

ErrUpdateEnv == "UpdateEnvironment: request failed"

\* The effect of a PutObject that succeeds: the object at bucket/key is
\* created or replaced.
S3Put(objects, obj) ==
    {o \in objects : ~(o.bucket = obj.bucket /\ o.key = obj.key)} \cup {obj}

\* The PutObject call of uploadToS3.
PutObject ==
    /\ pc = "PutObject"
    /\ steps' = Append(steps, "put")
    /\ LET params == [op |-> "PutObject", bucket |-> Bucket,
                      key |-> desc.BuildKey]
       IN  /\ calls' = Append(calls, params)
           /\ \E ok \in BOOLEAN :
                /\ puts' = Append(puts, [run |-> run, commits |-> commits,
                                         bucket |-> params.bucket,
                                         key |-> params.key, ok |-> ok])
                /\ IF ok
                   THEN /\ s3' = S3Put(s3, [bucket |-> params.bucket,
                                            key |-> params.key,
                                            body |-> zip.buf, run |-> run])
                        /\ pc' = "CreateApplicationVersion"
                        /\ UNCHANGED <<failure, deployRet>>
                   ELSE Fails("put", ErrPutObject) /\ UNCHANGED s3
    /\ UNCHANGED <<envVars, versions, envVersion, envAtStart, run, desc,
                   zipVars, exitCode, stderr, built>>

VersionLabelKey(d) == d.BuildKey

\* VersionLabel of both elasticBeanstalk inputs.
VersionLabel(d) == d.BuildVersion

\* elasticBeanstalkDeploy up to the check of CreateApplicationVersion.
CreateApplicationVersion ==
    /\ pc = "CreateApplicationVersion"
    /\ steps' = Append(steps, "create")
    /\ LET input == [op |-> "CreateApplicationVersion",
                     app |-> ApplicationName,
                     label |-> VersionLabel(desc),
                     bucket |-> Bucket,
                     key |-> desc.BuildKey]
       IN  /\ calls' = Append(calls, input)
           /\ \E ok \in BOOLEAN :
                IF ok
                THEN /\ versions' = versions \cup {input.label}
                     /\ pc' = "UpdateEnvironment"
                     /\ UNCHANGED <<failure, deployRet>>
                ELSE Fails("create", ErrCreateVersion) /\ UNCHANGED versions
    /\ UNCHANGED <<envVars, s3, envVersion, envAtStart, run, desc, zipVars,
                   exitCode, stderr, built, puts>>

UpdateInput == [op |-> "UpdateEnvironment", env |-> EnvironmentName,
                label |-> VersionLabel(desc)]

UpdateEnvironmentRollsBack ==
    /\ pc = "UpdateEnvironment"
    /\ steps' = Append(steps, "update")
    /\ \E ok \in BOOLEAN :
         IF ok
         THEN /\ calls' = Append(calls, UpdateInput)
              /\ envVersion' = UpdateInput.label
              /\ deployRet' = Nil
              /\ pc' = "deployReturned"
              /\ UNCHANGED <<failure, versions>>
         ELSE /\ calls' = calls \o <<UpdateInput,
                                     [op |-> "DeleteApplicationVersion",
                                      label |-> UpdateInput.label]>>
              /\ versions' = versions \ {UpdateInput.label}
              /\ Fails("update", ErrUpdateEnv)
              /\ UNCHANGED envVersion
    /\ UNCHANGED <<envVars, s3, envAtStart, run, desc, zipVars, exitCode,
                   stderr, built, puts>>

\* The rest of elasticBeanstalkDeploy, and the return of Deploy.
UpdateEnvironment ==
    /\ pc = "UpdateEnvironment"
    /\ steps' = Append(steps, "update")
    /\ calls' = Append(calls, UpdateInput)
    /\ \E ok \in BOOLEAN :
         IF ok
         THEN /\ envVersion' = UpdateInput.label
              /\ deployRet' = Nil
              /\ pc' = "deployReturned"
              /\ UNCHANGED failure
         ELSE Fails("update", ErrUpdateEnv) /\ UNCHANGED envVersion
    /\ UNCHANGED <<envVars, s3, versions, envAtStart, run, desc, zipVars,
                   exitCode, stderr, built, puts>>

\* -------------------------------------------------------------------- main

ErrGetwd == "getwd: no such file or directory"

FatalMsg(err) == [kind |-> "fatal", text |-> "Deployment error: %v", err |-> err]

SuccessMsg == [kind |-> "println", text |-> "Deployed to AWS Elastic Beanstalk",
               err |-> Nil]

PanicMsg == [kind |-> "panic", text |-> "goroutine 1 [running]",
             err |-> PanicNilDeref]

\* os.Getwd and its check.
Getwd ==
    /\ pc = "main"
    /\ steps' = Append(steps, "getwd")
    /\ \E ok \in BOOLEAN :
         IF ok
         THEN pc' = "newDeploymentDescriptor"
              /\ UNCHANGED <<failure, exitCode, stderr>>
         ELSE /\ failure' = [step |-> "getwd", err |-> ErrGetwd]
              /\ stderr' = Append(stderr, FatalMsg(ErrGetwd))
              /\ exitCode' = 1
              /\ pc' = "exit"
    /\ UNCHANGED <<envVars, remoteVars, run, desc, zipVars, calls,
                   deployRet, built, puts>>

ExitStatusZero(ret) == 0

\* log.Fatalf exits with status 1; returning from main exits with 0.
ExitStatus(ret) == IF ret # Nil THEN 1 ELSE 0

\* main after Deploy has returned.
MainCheck ==
    /\ pc = "deployReturned"
    /\ stderr' = Append(stderr, IF deployRet # Nil THEN FatalMsg(deployRet)
                                ELSE SuccessMsg)
    /\ exitCode' = ExitStatus(deployRet)
    /\ pc' = "exit"
    /\ UNCHANGED <<envVars, remoteVars, run, desc, zipVars, steps, calls,
                   failure, deployRet, built, puts>>

\* The Go runtime on the nil dereference: no deferred function recovers, the
\* panic is printed and the process exits with status 2.
Panic ==
    /\ pc = "panic"
    /\ stderr' = Append(stderr, PanicMsg)
    /\ exitCode' = 2
    /\ pc' = "exit"
    /\ UNCHANGED <<envVars, remoteVars, run, desc, zipVars, steps, calls,
                   failure, deployRet, built, puts>>

\* ------------------------------------------------------------- environment

\* The tool is run again in the same directory.
Rerun ==
    /\ pc = "exit"
    /\ run < MaxRuns
    /\ run' = run + 1
    /\ pc' = "main"
    /\ envAtStart' = envVersion
    /\ desc' = NoDescriptor
    /\ zw' = NewZip
    /\ fi' = 1
    /\ dirPath' = <<>>
    /\ stack' = <<>>
    /\ zip' = NoZip
    /\ steps' = <<>>
    /\ calls' = <<>>
    /\ failure' = NoFailure
    /\ deployRet' = NoReturn
    /\ exitCode' = -1
    /\ stderr' = <<>>
    /\ UNCHANGED <<envVars, s3, versions, envVersion, progress, zipCb, built,
                   puts>>

\* A commit on the branch between two runs rewrites the ref file.
Commit ==
    /\ pc = "exit"
    /\ run < MaxRuns
    /\ commits < run
    /\ refFile.exists
    /\ \E r \in RefFiles(1) \ {refFile} : r.exists /\ refFile' = r
    /\ commits' = commits + 1
    /\ UNCHANGED <<deployJson, fs, remoteVars, run, pc, desc, zipVars,
                   steps, calls, failure, deployRet, exitCode, stderr, built,
                   puts>>


\* ---------------------------------------------------------- specifications

Next ==
    \/ Getwd
    \/ LoadDescriptor
    \/ GetCommitHash
    \/ CallZipFiles
    \/ ZipLoop
    \/ WalkStep
    \/ UploadCheck
    \/ PutObject
    \/ CreateApplicationVersion
    \/ UpdateEnvironment
    \/ MainCheck
    \/ Panic

\* File systems with files at the top and in one directory.
ShallowFileSystems ==
    {f \in FileSystems : f[<<nD, nC>>] = "none" /\ f[<<nD, nE>>] = "none"}

Init ==
    InitWith(DeployJsons(MaxFiles), RefFiles(1), ShallowFileSystems, "main",
             FALSE)

\* One run of the tool.
Spec == Init /\ [][Next]_vars

\* One run of the tool; the process is never suspended for ever, and every
\* call it makes returns.
LiveSpec == Init /\ [][Next]_vars /\ WF_vars(Next)

RerunNext == Next \/ Rerun \/ Commit

RerunInit ==
    InitWith(DeployJsons(1), RefFiles(1),
             {f \in ShallowFileSystems : f[<<nF>>] \in {"none", "file"}},
             "main", FALSE)

\* The tool run MaxRuns times in one directory, against one remote account.
RerunSpec == RerunInit /\ [][RerunNext]_vars

DescNext == LoadDescriptor \/ GetCommitHash

DescInit ==
    InitWith(DeployJsons(1), RefFiles(MaxRefLen),
             {[n \in Nodes |-> "none"]}, "newDeploymentDescriptor", FALSE)

\* newDeploymentDescriptor on every deploy.json and ref file.
DescSpec == DescInit /\ [][DescNext]_vars

\* zipFiles is called with a progress function, then again with nil.
ZipAgain ==
    /\ pc = "zipReturned"
    /\ progress
    /\ zipCb' = zip
    /\ progress' = FALSE
    /\ zw' = NewZip
    /\ fi' = 1
    /\ pc' = "zipFiles"
    /\ UNCHANGED <<envVars, remoteVars, run, desc, dirPath, stack, zip, steps,
                   calls, failure, deployRet, exitCode, stderr, built, puts>>


ZipNext == ZipLoop \/ WalkStep \/ ZipAgain

ZipInit ==
    InitWith([is : {"object"}, files : SeqsUpTo(FileArgs, MaxFiles),
              branch : {<<"m">>}],
             {[exists |-> TRUE, content |-> <<"a">>]}, FileSystems,
             "zipFiles", TRUE)

\* zipFiles on every files list and file system, called with a progress
\* function and then with nil.
ZipSpec == ZipInit /\ [][ZipNext]_vars

\* ------------------------------------------------------------------ claims

Count(seq, x) == Cardinality({i \in 1..Len(seq) : seq[i] = x})

BeforeUpload ==
    {"main", "newDeploymentDescriptor", "getCommitHash", "uploadToS3",
     "zipFiles", "walk", "zipReturned"}

\* C1: when Deploy returns success, the process has made exactly three remote
\* calls, in this order: PutObject with key BuildKey, CreateApplicationVersion
\* with label BuildVersion, UpdateEnvironment with label BuildVersion; and
\* while the descriptor is being loaded and the archive built no remote call
\* has been made (any call is made with the descriptor built and the archive
\* zipped without error).
C1_CallsOnceInOrder ==
    /\ pc \in BeforeUpload => calls = <<>>
    /\ calls # <<>> => desc.BuildKey # <<>> /\ zip.err = Nil
    /\ deployRet = Nil =>
         calls = << [op |-> "PutObject", bucket |-> Bucket,
                     key |-> desc.BuildKey],
                    [op |-> "CreateApplicationVersion",
                     app |-> ApplicationName, label |-> desc.BuildVersion,
                     bucket |-> Bucket, key |-> desc.BuildKey],
                    [op |-> "UpdateEnvironment", env |-> EnvironmentName,
                     label |-> desc.BuildVersion] >>

C1_Witness ==
    /\ pc = "exit"
    /\ deployRet = Nil
    /\ Len(calls) = 3
    /\ desc.BuildVersion = <<"m", "-", "a">>

\* C2: once a step of Deploy (load descriptor, resolve commit hash, build
\* archive, upload, register version, update environment) has failed, Deploy
\* has returned to main exactly the error of that step, the failed step is the
\* last step started, and it was started once.
C2_FailureReturnsItsError ==
    failure.step \notin {"none", "getwd"} =>
        /\ pc \in {"deployReturned", "exit"}
        /\ deployRet = failure.err
        /\ Last(steps) = failure.step
        /\ Count(steps, failure.step) = 1

\* The part of C2 that the code keeps: a step that fails by returning an
\* error ends Deploy at once with that error.
ReturnedErrorsPropagate ==
    (failure.step \notin {"none", "getwd"} /\ failure.err # PanicNilDeref) =>
        /\ pc \in {"deployReturned", "exit"}
        /\ deployRet = failure.err
        /\ Last(steps) = failure.step
        /\ Count(steps, failure.step) = 1

ConfiguredPathMissing ==
    /\ deployJson.is = "object"
    /\ \E i \in 1..Len(deployJson.files) :
         Lstat(fs, PathJoin(<<DeployDir, deployJson.files[i]>>)) = "none"

\* C3: if a path of the files list does not exist below the deployment
\* directory, wherever it stands in the list, the process makes no remote
\* call (no PutObject, so no version registration and no environment update),
\* and once its zipFiles has returned, it has returned an error and Deploy
\* fails in the archive step.
C3_MissingPathNoUpload ==
    ConfiguredPathMissing =>
        /\ calls = <<>>
        /\ puts = <<>>
        /\ s3 = {}
        /\ pc \in {"zipReturned", "PutObject"} => zip.err # Nil
        /\ (pc = "exit" /\ Count(steps, "zip") = 1) => failure.step = "zip"

C3_Witness ==
    /\ pc = "exit"
    /\ Len(deployJson.files) = 2
    /\ Lstat(fs, PathJoin(<<DeployDir, deployJson.files[1]>>)) = "file"
    /\ Lstat(fs, PathJoin(<<DeployDir, deployJson.files[2]>>)) = "none"
    /\ failure = [step |-> "zip", err |-> ErrLstat]
    /\ calls = <<>>

\* C4: if version registration succeeded and environment update failed, the
\* update is the last remote call of the process (three calls: upload,
\* registration, one update), Deploy returns the update's error, the version
\* stays registered and the object uploaded, and the environment runs what it
\* ran when the process started.
C4_NoCompensation ==
    failure.step = "update" =>
        /\ pc \in {"deployReturned", "exit"}
        /\ deployRet = ErrUpdateEnv
        /\ Len(calls) = 3
        /\ calls[1].op = "PutObject"
        /\ calls[2].op = "CreateApplicationVersion"
        /\ calls[3].op = "UpdateEnvironment"
        /\ desc.BuildVersion \in versions
        /\ \E o \in s3 : o.bucket = Bucket /\ o.key = desc.BuildKey
        /\ envVersion = envAtStart

C4_Witness ==
    /\ pc = "exit"
    /\ failure.step = "update"
    /\ exitCode = 1
    /\ desc.BuildVersion \in versions

\* C5: the descriptor built from a branch name and a ref file content has
\* CommitHash = the content without its leading and trailing white space,
\* BuildVersion = branch + "-" + CommitHash and BuildKey = BuildVersion +
\* ".zip".
C5_DerivedFields ==
    pc = "uploadToS3" =>
        LET c == refFile.content
            h == desc.CommitHash
        IN  /\ \E i \in 0..Len(c) :
                 /\ i + Len(h) <= Len(c)
                 /\ h = SubSeq(c, i + 1, i + Len(h))
                 /\ \A k \in 1..i : IsSpace(c[k])
                 /\ \A k \in (i + Len(h) + 1)..Len(c) : IsSpace(c[k])
            /\ h # <<>> => ~IsSpace(h[1]) /\ ~IsSpace(h[Len(h)])
            /\ desc.Branch = deployJson.branch
            /\ desc.BuildVersion = deployJson.branch \o <<"-">> \o h
            /\ desc.BuildKey = deployJson.branch \o <<"-">> \o h
                                   \o <<".", "z", "i", "p">>

C5_Witness ==
    /\ pc = "uploadToS3"
    /\ refFile.content = <<" ", "a">>
    /\ desc.BuildKey = <<"d", "v", "-", "a", ".", "z", "i", "p">>

\* C6: two runs of the tool in the same directory with the same deploy.json
\* and no rewrite of the branch ref between them build the same BuildVersion
\* and BuildKey, their PutObject calls name the same bucket and key, and the
\* bucket holds one object under that key, the one last written.
C6_SameKeyOverwrites ==
    /\ \A i, j \in 1..Len(built) :
         built[i].commits = built[j].commits =>
             /\ built[i].version = built[j].version
             /\ built[i].key = built[j].key
    /\ \A i, j \in 1..Len(puts) :
         puts[i].commits = puts[j].commits =>
             /\ puts[i].bucket = puts[j].bucket
             /\ puts[i].key = puts[j].key
    /\ \A o1, o2 \in s3 :
         (o1.bucket = o2.bucket /\ o1.key = o2.key) => o1 = o2
    /\ \A o \in s3 : \A i \in 1..Len(puts) :
         (puts[i].ok /\ puts[i].bucket = o.bucket /\ puts[i].key = o.key) =>
             puts[i].run <= o.run

C6_Witness ==
    /\ run = 2
    /\ pc = "exit"
    /\ commits = 0
    /\ Len(puts) = 2
    /\ puts[1].ok /\ puts[2].ok
    /\ puts[1].run = 1
    /\ Cardinality(s3) = 1
    /\ \A o \in s3 : o.run = 2

IsPrefix(a, b) == Len(a) <= Len(b) /\ SubSeq(b, 1, Len(a)) = a

\* The regular files reachable from a configured path: the file itself, or
\* every regular file at any depth below the directory.
RegularFilesOf(arg) ==
    LET n == NodeOf(PathJoin(<<DeployDir, arg>>))
    IN  IF fs[n] = "dir"
        THEN Cardinality({m \in Nodes :
                 fs[m] \in {"file", "locked"} /\ IsPrefix(n, m)})
        ELSE 1

RECURSIVE TotalRegularFiles(_)
TotalRegularFiles(files) ==
    IF files = <<>> THEN 0
    ELSE RegularFilesOf(files[1]) + TotalRegularFiles(Tail(files))

\* C7: for a non-empty files list whose entries all exist, the archive that
\* zipFiles returns has as many entries as there are regular files reachable
\* from the listed entries.
C7_EntryCount ==
    (/\ pc = "zipReturned"
     /\ zip.err = Nil
     /\ desc.Files # <<>>
     /\ \A i \in 1..Len(desc.Files) :
          Lstat(fs, PathJoin(<<DeployDir, desc.Files[i]>>)) # "none")
        => Len(zip.buf) = TotalRegularFiles(desc.Files)

C7_Witness ==
    /\ pc = "zipReturned"
    /\ zip.err = Nil
    /\ desc.Files = << <<"d">>, <<"f">> >>
    /\ fs[<<nD, nE>>] = "dir"
    /\ Len(zip.buf) = 4

\* The name the claim gives an archive entry: for a file of a configured
\* directory, the directory's base name and the file names on the way from the
\* directory to the file, joined by '/'; for a configured file, its file name.
ClaimedName(e) ==
    LET a == NodeOf(PathJoin(<<DeployDir, e.arg>>))
        n == NodeOf(e.src)
    IN  IF fs[a] = "dir"
        THEN JoinWith(<<Last(a)>> \o SubSeq(n, Len(a) + 1, Len(n)), "/")
        ELSE Last(n)

\* C8: every entry of the archive zipFiles returns is named as follows: a
\* file in a configured directory, by the directory's base name joined with
\* '/' to the file's path relative to the directory, every component kept; a
\* configured file, by its base name alone.
C8_EntryNames ==
    (pc = "zipReturned" /\ zip.err = Nil) =>
        \A i \in 1..Len(zip.buf) : zip.buf[i].name = ClaimedName(zip.buf[i])

\* C9: zipFiles called with a progress function and called with nil return
\* the same error or, without error, the same entries in the same order; the
\* progress function is called once per entry, with the entry's name, in the
\* order of the entries.
C9_ProgressChangesNothing ==
    (pc = "zipReturned" /\ ~progress) =>
        /\ zip.err = zipCb.err
        /\ zip.buf = zipCb.buf
        /\ zip.log = <<>>
        /\ zipCb.err = Nil =>
             zipCb.log = [i \in 1..Len(zipCb.buf) |-> zipCb.buf[i].name]

C9_Witness ==
    /\ pc = "zipReturned"
    /\ ~progress
    /\ zipCb.err = Nil
    /\ zipCb.log = << <<"f">>, <<"d", "/", "e", "/", "f">>, <<"d", "/", "f">> >>
    /\ zip.buf = zipCb.buf

ExitContract ==
    /\ pc # "exit" => exitCode = -1 /\ stderr = <<>>
    /\ pc = "exit" =>
         /\ exitCode \in {0, 1, 2}
         /\ Len(stderr) = 1
         /\ failure # NoFailure =>
              /\ exitCode # 0
              /\ stderr[1].kind \in {"fatal", "panic"}
              /\ stderr[1].err = failure.err
         /\ exitCode = 0 <=> deployRet = Nil
         /\ deployRet = Nil <=> stderr = <<SuccessMsg>>
         /\ stderr = <<SuccessMsg>> => failure = NoFailure

\* C10: every run of the process ends in an exit; it exits with a non-zero
\* status and one message naming the error when os.Getwd or a step of Deploy
\* has failed, and with status 0 and the success message exactly when Deploy
\* has returned nil; the success message is not written in a run in which a
\* step failed.
C10_ExitContract == <>(pc = "exit") /\ []ExitContract

C10_Witness ==
    /\ pc = "exit"
    /\ failure.step = "put"
    /\ exitCode = 1
    /\ stderr = <<FatalMsg(ErrPutObject)>>


====
